---- MODULE Spec2Model ----
(***************************************************************************)
(* Model of BluetoothLedStrip.Device (src/BluetoothLedStrip/src/           *)
(* BluetoothLedStrip.ts): the connect() negotiation with its nested        *)
(* try/catch probing, the five commands, the three send functions and the  *)
(* disconnect event.  Every await of connect() is a suspension point: the  *)
(* code up to the await is one action, its continuation the next, and      *)
(* commands and the disconnect event may run in between.                   *)
(*                                                                         *)
(* Scope: one peripheral, one connect() in flight at a time (a second      *)
(* connect() may start once the previous one has finished).  The platform  *)
(* calls requestDevice and gatt.connect either resolve to an object or     *)
(* reject, as Web Bluetooth defines them.                                  *)
(***************************************************************************)
EXTENDS Integers, Sequences, FiniteSets, TLC

\* ---------------------------------------------------------------- bounds
MaxConnects == 1
MaxWrites == 2

\* arguments the commands are called with; the callbacks are registered
\* all together or not at all
CallbackArgs == { << TRUE, TRUE, TRUE >>, << FALSE, FALSE, FALSE >> }
RGBArgs == { <<255, 0, 0>>, <<10, 200, 30>> }
SwitchArgs == { 0, 1 }
ModeArgs == { 2 }
BrightnessArgs == { 50 }
SpeedArgs == { 30 }

\* number of FamilyB sends already made by the session SpecWrap starts from
WrapStarts == { 65534 }

\* ------------------------------------------------------------- constants
\* enum Method
RGB == 3
SWITCH == 4
MODE == 7
BRIGHTNESS == 8
SPEED == 9

\* enum DeviceType
UNKNOWN == "UNKNOWN"
MAGIC_STRIP == "MAGIC_STRIP"
LED_NET_WF == "LED_NET_WF"
KEEP_SMILE == "KEEP_SMILE"

DeviceType == { UNKNOWN, MAGIC_STRIP, LED_NET_WF, KEEP_SMILE }

\* the characteristic handles, named by the GUID they were looked up with
undefined == "undefined"
guidCharacteristicMagicStrip == "0000fff1"
guidCharacteristicLedNetWf == "0000ff01"
guidCharacteristicKeepsmile == "0000afd1"

\* the candidates in the order connect() probes them
Candidates == << MAGIC_STRIP, LED_NET_WF, KEEP_SMILE >>

CharacteristicOf(t) ==
    CASE t = MAGIC_STRIP -> guidCharacteristicMagicStrip
      [] t = LED_NET_WF  -> guidCharacteristicLedNetWf
      [] t = KEEP_SMILE  -> guidCharacteristicKeepsmile
      [] OTHER           -> undefined

VARIABLES
    deviceType, counter, lastMode, lastBrightness, lastSpeed, characteristic,
    onConnect, onDisconnect, onError,   \* TRUE: a callback is registered
    pc,          \* position of connect(): "idle" or the await it is suspended at
    cand,        \* index in Candidates of the candidate being probed
    listening,   \* the gattserverdisconnected listener is registered
    linkUp,      \* the GATT link is up
    lookups,     \* the lookups resolved in the current connect(), in order
    nConnects,   \* connect() calls observed since the initial state
    cbConnect, cbError, cbDisconnect,   \* callback invocations since the last connect() call
    nWrites,     \* writeValueWithoutResponse calls observed since the initial state
    lastWrite,   \* the most recent of them
    nSendB,      \* packets sendLedNetWf has built on this session
    argMode, argBrightness, argSpeed,   \* the last argument of each setter
    connected,   \* some connect() has bound a characteristic and reached its connect callback
    dropped,     \* a disconnect event was delivered after the last successful connect()
    lastOp,      \* the command called last
    \* the Device of dist/BluetoothLedStrip.js, a separate object
    dist,        \* its fields
    distRun      \* where its calls stand and what they have done so far

\* the Device of src/BluetoothLedStrip.ts
original == << deviceType, counter, lastMode, lastBrightness, lastSpeed, characteristic,
               onConnect, onDisconnect, onError, pc, cand, listening, linkUp, lookups,
               nConnects, cbConnect, cbError, cbDisconnect, nWrites, lastWrite,
               nSendB, argMode, argBrightness, argSpeed,
               connected, dropped, lastOp >>

\* the Device of dist/BluetoothLedStrip.js
enhanced == << dist, distRun >>

vars == << original, enhanced >>

session == << deviceType, counter, lastMode, lastBrightness, lastSpeed, characteristic >>
callbacks == << onConnect, onDisconnect, onError >>
negotiation == << pc, cand, lookups, nConnects >>
invoked == << cbConnect, cbError, cbDisconnect >>
transport == << nWrites, lastWrite, nSendB >>
args == << argMode, argBrightness, argSpeed >>

NoWrite == [ dialect |-> "none", to |-> "undefined", packet |-> << >>, result |-> "none" ]

\* the dist Device after its constructor, nothing called on it yet
EnhancedConstructed ==
    /\ dist = [ device |-> "null", characteristic |-> "null",
                onConnectCallback |-> FALSE, onDisconnectCallback |-> FALSE,
                onErrorCallback |-> FALSE ]
    /\ distRun = [ connectPc |-> "idle",    \* position of connect()
                   nConnects |-> 0,         \* connect() calls so far
                   call |-> "none",         \* the command called last
                   args |-> << >>,          \* its arguments
                   callPc |-> "idle",       \* "writeValue" while its write is awaited
                   nCalls |-> 0,            \* commands called so far
                   packet |-> << >>,        \* the packet last handed to writeValue
                   nWriteValue |-> 0,       \* writeValue calls so far
                   nOnError |-> 0,          \* error callback invocations so far
                   error |-> "none",        \* the error last given to the error callback
                   outcome |-> "none" ]     \* of the command called last, to its caller

\* the field defaults of class Device
Init ==
    /\ deviceType = UNKNOWN
    /\ counter = 0
    /\ lastMode = 1
    /\ lastBrightness = 100
    /\ lastSpeed = 100
    /\ characteristic = undefined
    /\ onConnect = FALSE /\ onDisconnect = FALSE /\ onError = FALSE
    /\ pc = "idle" /\ cand = 1
    /\ listening = FALSE /\ linkUp = FALSE
    /\ lookups = << >>
    /\ nConnects = 0
    /\ cbConnect = 0 /\ cbError = 0 /\ cbDisconnect = 0
    /\ nWrites = 0 /\ lastWrite = NoWrite
    /\ nSendB = 0
    /\ argMode = 1 /\ argBrightness = 100 /\ argSpeed = 100
    /\ connected = FALSE /\ dropped = FALSE
    /\ lastOp = "none"
    /\ EnhancedConstructed

\* ------------------------------------------------------------ connect()

\* ConnectCatch with the error callback forgotten: the exception is only logged
ConnectCatch_LogOnly ==
    /\ pc' = "idle"
    /\ UNCHANGED invoked

\* the outer catch of connect(): console.log, then onError if one is registered
ConnectCatch ==
    /\ cbError' = IF onError THEN cbError + 1 ELSE cbError
    /\ pc' = "idle"
    /\ UNCHANGED << cbConnect, cbDisconnect >>

\* the inner catch blocks: a candidate that failed hands over to the next one,
\* the failure of the last candidate reaches the outer catch
NextCandidate ==
    IF cand < Len(Candidates)
    THEN /\ cand' = cand + 1
         /\ pc' = "getPrimaryService"
         /\ UNCHANGED invoked
    ELSE /\ cand' = cand
         /\ ConnectCatch

\* connect(onConnect, onDisconnect, onError) up to the await of requestDevice
Connect(c, d, e) ==
    /\ pc = "idle"
    /\ nConnects < MaxConnects
    /\ onConnect' = c /\ onDisconnect' = d /\ onError' = e
    /\ pc' = "requestDevice"
    /\ cand' = 1
    /\ lookups' = << >>
    /\ nConnects' = nConnects + 1
    /\ cbConnect' = 0 /\ cbError' = 0 /\ cbDisconnect' = 0
    /\ UNCHANGED << session, listening, linkUp, transport, args, connected, dropped, lastOp >>
    /\ UNCHANGED enhanced

\* requestDevice settles: the listener is registered and gatt.connect() is
\* awaited, or the rejection reaches the outer catch
RequestDeviceDone(ok) ==
    /\ pc = "requestDevice"
    /\ IF ok
       THEN /\ listening' = TRUE
            /\ pc' = "gattConnect"
            /\ UNCHANGED invoked
       ELSE /\ listening' = listening
            /\ ConnectCatch
    /\ UNCHANGED << session, callbacks, cand, linkUp, lookups, nConnects,
                    transport, args, connected, dropped, lastOp >>
    /\ UNCHANGED enhanced

\* gatt.connect() settles: the first candidate's service is looked up
GattConnectDone(ok) ==
    /\ pc = "gattConnect"
    /\ IF ok
       THEN /\ linkUp' = TRUE
            /\ pc' = "getPrimaryService"
            /\ UNCHANGED invoked
       ELSE /\ linkUp' = linkUp
            /\ ConnectCatch
    /\ UNCHANGED << session, callbacks, cand, listening, lookups, nConnects,
                    transport, args, connected, dropped, lastOp >>
    /\ UNCHANGED enhanced

\* GetPrimaryServiceDone with the family assignment of the first block pasted
\* unchanged into the two fallback blocks
GetPrimaryServiceDone_PastedType(ok) ==
    /\ pc = "getPrimaryService"
    /\ ok => linkUp
    /\ lookups' = Append(lookups, [ kind |-> "service", type |-> Candidates[cand], ok |-> ok ])
    /\ IF ok
       THEN /\ deviceType' = MAGIC_STRIP
            /\ pc' = "getCharacteristic"
            /\ UNCHANGED << cand, invoked >>
       ELSE /\ deviceType' = deviceType
            /\ NextCandidate
    /\ UNCHANGED << counter, lastMode, lastBrightness, lastSpeed, characteristic,
                    callbacks, listening, linkUp, nConnects, transport, args, connected, dropped, lastOp >>
    /\ UNCHANGED enhanced

\* getPrimaryService of the current candidate settles; a lookup on a link
\* that is down fails
GetPrimaryServiceDone(ok) ==
    /\ pc = "getPrimaryService"
    /\ ok => linkUp
    /\ lookups' = Append(lookups, [ kind |-> "service", type |-> Candidates[cand], ok |-> ok ])
    /\ IF ok
       THEN /\ deviceType' = Candidates[cand]
            /\ pc' = "getCharacteristic"
            /\ UNCHANGED << cand, invoked >>
       ELSE /\ deviceType' = deviceType
            /\ NextCandidate
    /\ UNCHANGED << counter, lastMode, lastBrightness, lastSpeed, characteristic,
                    callbacks, listening, linkUp, nConnects, transport, args, connected, dropped, lastOp >>
    /\ UNCHANGED enhanced

\* getCharacteristic of the current candidate settles; on success the handle is
\* bound and, with no further await, the connect callback is called
GetCharacteristicDone(ok) ==
    /\ pc = "getCharacteristic"
    /\ ok => linkUp
    /\ lookups' = Append(lookups, [ kind |-> "characteristic", type |-> Candidates[cand], ok |-> ok ])
    /\ IF ok
       THEN /\ characteristic' = CharacteristicOf(Candidates[cand])
            /\ cbConnect' = IF onConnect THEN cbConnect + 1 ELSE cbConnect
            /\ pc' = "idle"
            /\ connected' = TRUE
            /\ dropped' = FALSE
            /\ UNCHANGED << cand, cbError, cbDisconnect >>
       ELSE /\ characteristic' = characteristic
            /\ UNCHANGED << connected, dropped >>
            /\ NextCandidate
    /\ UNCHANGED << deviceType, counter, lastMode, lastBrightness, lastSpeed,
                    callbacks, listening, linkUp, nConnects, transport, args, lastOp >>
    /\ UNCHANGED enhanced

\* ------------------------------------------------- the disconnect event

\* onDisconnected(event): the link dropped; the disconnect callback is called
\* if one is registered
OnDisconnected ==
    /\ listening
    /\ linkUp
    /\ linkUp' = FALSE
    /\ cbDisconnect' = IF onDisconnect THEN cbDisconnect + 1 ELSE cbDisconnect
    /\ dropped' = connected
    /\ UNCHANGED << session, callbacks, negotiation, listening, cbConnect, cbError,
                    transport, args, connected, lastOp >>
    /\ UNCHANGED enhanced

\* ------------------------------------------------------ typed-array helpers

\* a typed array that clamps every element to 255 instead of wrapping it
Uint8Array_Clamped(elems) == [ i \in DOMAIN elems |-> IF elems[i] > 255 THEN 255 ELSE elems[i] ]

\* new Uint8Array([...]) of integers: every element is reduced modulo 256
Uint8Array(elems) == [ i \in DOMAIN elems |-> elems[i] % 256 ]

\* new Uint8Array(n): n zero bytes
Zeros(n) == [ i \in 1..n |-> 0 ]

\* a non-negative fraction n/d, as rgb2hsv computes them
Frac(n, d) == [ n |-> n, d |-> d ]

\* Uint8Array.from([...]) of non-negative numbers: the fractional part is
\* dropped, then the value is reduced modulo 256
Uint8ArrayFrom(nums) == [ i \in DOMAIN nums |-> (nums[i].n \div nums[i].d) % 256 ]

Max3(a, b, c) == IF a >= b /\ a >= c THEN a ELSE IF b >= c THEN b ELSE c
Min3(a, b, c) == IF a <= b /\ a <= c THEN a ELSE IF b <= c THEN b ELSE c

\* rgb2hsv(red, green, blue): the three channels are divided by 255; the
\* quotients below are taken over the common denominator 255, so v, c are
\* 255 times the code's v, c and h is the numerator of the code's h over c.
\* The code computes in IEEE doubles and the fractions here are exact: on the
\* triples of RGBArgs and of ColorInputs both give the same three bytes, on
\* other triples the rounding of the doubles can make a byte one less than the
\* exact quotient (rgb2hsv(0, 1, 10) has the exact hue 123 and the double
\* 122.99...).
\*
\* rgb2hsv_Standard is the conversion without the swap of red and green, and
\* rgb2hsv_FullHue the conversion of the code without the halving of the hue.
rgb2hsv_Standard(red, green, blue) ==
    LET v == Max3(red, green, blue)
        c == v - Min3(red, green, blue)
        h == IF c = 0 THEN 0
             ELSE IF v = red THEN green - blue
             ELSE IF v = green THEN 2 * c + (blue - red)
             ELSE 4 * c + (red - green)
        hw == IF h < 0 THEN h + 6 * c ELSE h
    IN  << IF c = 0 THEN Frac(0, 1) ELSE Frac(60 * hw, 2 * c),
           IF v = 0 THEN Frac(0, 1) ELSE Frac(c * 100, v),
           Frac(v * 100, 255) >>

rgb2hsv_FullHue(red, green, blue) ==
    LET v == Max3(red, green, blue)
        c == v - Min3(red, green, blue)
        h == IF c = 0 THEN 0
             ELSE IF v = green THEN red - blue
             ELSE IF v = red THEN 2 * c + (blue - green)
             ELSE 4 * c + (green - red)
        hw == IF h < 0 THEN h + 6 * c ELSE h
    IN  << IF c = 0 THEN Frac(0, 1) ELSE Frac(60 * hw, c),
           IF v = 0 THEN Frac(0, 1) ELSE Frac(c * 100, v),
           Frac(v * 100, 255) >>

rgb2hsv(red, green, blue) ==
    LET v == Max3(red, green, blue)
        c == v - Min3(red, green, blue)
        h == IF c = 0 THEN 0
             ELSE IF v = green THEN red - blue
             ELSE IF v = red THEN 2 * c + (blue - green)
             ELSE 4 * c + (green - red)
        hw == IF h < 0 THEN h + 6 * c ELSE h
    IN  << IF c = 0 THEN Frac(0, 1) ELSE Frac(60 * hw, 2 * c),
           IF v = 0 THEN Frac(0, 1) ELSE Frac(c * 100, v),
           Frac(v * 100, 255) >>

\* --------------------------------------------------- the send functions

WriteResults == { "pending", "throw" }

\* characteristic.writeValueWithoutResponse(packet): the call returns a promise
\* (pending) or throws; a throw is caught by the send function and logged
writeValueWithoutResponse(dialect, packet, res) ==
    /\ nWrites' = nWrites + 1
    /\ lastWrite' = [ dialect |-> dialect, to |-> characteristic, packet |-> packet, result |-> res ]

NoSend == UNCHANGED << counter, transport >>

\* sendMagicStrip without the early return on an unbound characteristic
sendMagicStrip_NoGuard(method, data, res) ==
    /\ writeValueWithoutResponse("MagicStrip", Uint8Array(<< method >> \o data), res)
    /\ UNCHANGED << counter, nSendB >>

sendMagicStrip(method, data, res) ==
    IF characteristic = undefined
    THEN NoSend
    ELSE /\ writeValueWithoutResponse("MagicStrip", Uint8Array(<< method >> \o data), res)
         /\ UNCHANGED << counter, nSendB >>

\* sendLedNetWf with the counter incremented after the packet is built
sendLedNetWf_PostIncrement(magic, data, res) ==
    IF characteristic = undefined
    THEN NoSend
    ELSE LET length == Len(magic) + Len(data)
             packet == Uint8Array(<< (counter \div 256) % 256,
                                     counter % 256,
                                     128, 0, 0,
                                     length,
                                     length + 1 >>
                                  \o Uint8Array(magic) \o data \o << 0 >>)
         IN  /\ counter' = counter + 1
             /\ nSendB' = nSendB + 1
             /\ writeValueWithoutResponse("LedNetWf", packet, res)

\* sendLedNetWf with the counter incremented before the early return
sendLedNetWf_CountBeforeGuard(magic, data, res) ==
    IF characteristic = undefined
    THEN /\ counter' = counter + 1
         /\ UNCHANGED transport
    ELSE LET length == Len(magic) + Len(data)
             packet == Uint8Array(<< ((counter + 1) \div 256) % 256,
                                     (counter + 1) % 256,
                                     128, 0, 0,
                                     length,
                                     length + 1 >>
                                  \o Uint8Array(magic) \o data \o << 0 >>)
         IN  /\ counter' = counter + 1
             /\ nSendB' = nSendB + 1
             /\ writeValueWithoutResponse("LedNetWf", packet, res)

\* sendLedNetWf with the length taken from the payload alone, the selector
\* bytes not counted
sendLedNetWf_LengthOfData(magic, data, res) ==
    IF characteristic = undefined
    THEN NoSend
    ELSE LET length == Len(data)
             packet == Uint8Array(<< ((counter + 1) \div 256) % 256,
                                     (counter + 1) % 256,
                                     128, 0, 0,
                                     length,
                                     length + 1 >>
                                  \o Uint8Array(magic) \o data \o << 0 >>)
         IN  /\ counter' = counter + 1
             /\ nSendB' = nSendB + 1
             /\ writeValueWithoutResponse("LedNetWf", packet, res)

\* the checksum sendLedNetWf puts in the last byte
checksum == 0

sendLedNetWf(magic, data, res) ==
    IF characteristic = undefined
    THEN NoSend
    ELSE LET length == Len(magic) + Len(data)
             packet == Uint8Array(<< ((counter + 1) \div 256) % 256,
                                     (counter + 1) % 256,
                                     128, 0, 0,
                                     length,
                                     length + 1 >>
                                  \o Uint8Array(magic) \o data \o << checksum >>)
         IN  /\ counter' = counter + 1
             /\ nSendB' = nSendB + 1
             /\ writeValueWithoutResponse("LedNetWf", packet, res)

\* sendKeepsmile that only queues the packet: nothing is handed to the
\* transport within the command
sendKeepsmile_Queued(data, res) == NoSend

sendKeepsmile(data, res) ==
    IF characteristic = undefined
    THEN NoSend
    ELSE /\ writeValueWithoutResponse("Keepsmile", Uint8Array(data), res)
         /\ UNCHANGED << counter, nSendB >>

\* the promise of the most recent write settles: the then() callback is empty
\* and a rejection has no handler, so nothing in the session changes
WriteSettled(ok) ==
    /\ lastWrite.result = "pending"
    /\ lastWrite' = [ lastWrite EXCEPT !.result = IF ok THEN "fulfilled" ELSE "rejected" ]
    /\ UNCHANGED << session, callbacks, negotiation, listening, linkUp, invoked,
                    nWrites, nSendB, args, connected, dropped, lastOp >>
    /\ UNCHANGED enhanced

\* ---------------------------------------------------------- the commands

\* what every command leaves alone
CommandFrame == UNCHANGED << deviceType, characteristic, callbacks, negotiation,
                             listening, linkUp, invoked, connected, dropped, enhanced >>

\* setRGB whose KEEP_SMILE packet carries the default brightness instead of
\* lastBrightness
setRGB_DefaultBrightness(red, green, blue, res) ==
    /\ nWrites < MaxWrites
    /\ lastOp' = "setRGB"
    /\ CASE deviceType = MAGIC_STRIP ->
              sendMagicStrip(RGB, Uint8Array(<< red, green, blue >>), res)
         [] deviceType = LED_NET_WF ->
              LET hsv == rgb2hsv(red, green, blue)
              IN  sendLedNetWf(<< 11, 59 >>,
                               Uint8Array(<< 161 >> \o Uint8ArrayFrom(hsv) \o Zeros(7)), res)
         [] deviceType = KEEP_SMILE ->
              sendKeepsmile(<< 90, 0, 1, red, green, blue, 0, 100, 0, 165 >>, res)
         [] OTHER -> NoSend
    /\ UNCHANGED << lastMode, lastBrightness, lastSpeed, args >>
    /\ CommandFrame

setRGB(red, green, blue, res) ==
    /\ nWrites < MaxWrites
    /\ lastOp' = "setRGB"
    /\ CASE deviceType = MAGIC_STRIP ->
              sendMagicStrip(RGB, Uint8Array(<< red, green, blue >>), res)
         [] deviceType = LED_NET_WF ->
              LET hsv == rgb2hsv(red, green, blue)
              IN  sendLedNetWf(<< 11, 59 >>,
                               Uint8Array(<< 161 >> \o Uint8ArrayFrom(hsv) \o Zeros(7)), res)
         [] deviceType = KEEP_SMILE ->
              sendKeepsmile(<< 90, 0, 1, red, green, blue, 0, lastBrightness, 0, 165 >>, res)
         [] OTHER -> NoSend
    /\ UNCHANGED << lastMode, lastBrightness, lastSpeed, args >>
    /\ CommandFrame

setSwitch(switchBoolean, res) ==
    /\ nWrites < MaxWrites
    /\ lastOp' = "setSwitch"
    /\ CASE deviceType = MAGIC_STRIP ->
              sendMagicStrip(SWITCH, Uint8Array(<< switchBoolean >>), res)
         [] deviceType = LED_NET_WF ->
              sendLedNetWf(<< 11, 59 >>,
                           Uint8Array(<< IF switchBoolean > 0 THEN 35 ELSE 36 >> \o Zeros(10)), res)
         [] deviceType = KEEP_SMILE ->
              sendKeepsmile(<< 91, IF switchBoolean > 0 THEN 240 ELSE 15, 0, 181 >>, res)
         [] OTHER -> NoSend
    /\ UNCHANGED << lastMode, lastBrightness, lastSpeed, args >>
    /\ CommandFrame

\* the combined packets of setMode, setBrightness and setSpeed, built from the
\* cache as it is after the setter's assignment
\* sendCombined that sends the three cached values on MAGIC_STRIP too
sendCombined_AllTypes(method, value, mode, speed, brightness, res) ==
    CASE deviceType = MAGIC_STRIP ->
           sendMagicStrip(method, Uint8Array(<< mode, speed, brightness >>), res)
      [] deviceType = LED_NET_WF ->
           sendLedNetWf(<< 11, 56 >>, Uint8Array(<< mode, speed, brightness >>), res)
      [] deviceType = KEEP_SMILE ->
           sendKeepsmile(<< 92, 0, mode + 128, speed, brightness, 0, 197 >>, res)
      [] OTHER -> NoSend

sendCombined(method, value, mode, speed, brightness, res) ==
    CASE deviceType = MAGIC_STRIP ->
           sendMagicStrip(method, Uint8Array(<< value >>), res)
      [] deviceType = LED_NET_WF ->
           sendLedNetWf(<< 11, 56 >>, Uint8Array(<< mode, speed, brightness >>), res)
      [] deviceType = KEEP_SMILE ->
           sendKeepsmile(<< 92, 0, mode + 128, speed, brightness, 0, 197 >>, res)
      [] OTHER -> NoSend

setMode(mode, res) ==
    /\ nWrites < MaxWrites
    /\ lastOp' = "setMode"
    /\ lastMode' = mode
    /\ argMode' = mode
    /\ sendCombined(MODE, mode, lastMode', lastSpeed, lastBrightness, res)
    /\ UNCHANGED << lastBrightness, lastSpeed, argBrightness, argSpeed >>
    /\ CommandFrame

\* setBrightness that also puts the speed back to its default
setBrightness_ResetsSpeed(brightness, res) ==
    /\ nWrites < MaxWrites
    /\ lastOp' = "setBrightness"
    /\ lastBrightness' = brightness
    /\ lastSpeed' = 100
    /\ argBrightness' = brightness
    /\ sendCombined(BRIGHTNESS, brightness, lastMode, lastSpeed', lastBrightness', res)
    /\ UNCHANGED << lastMode, argMode, argSpeed >>
    /\ CommandFrame

setBrightness(brightness, res) ==
    /\ nWrites < MaxWrites
    /\ lastOp' = "setBrightness"
    /\ lastBrightness' = brightness
    /\ argBrightness' = brightness
    /\ sendCombined(BRIGHTNESS, brightness, lastMode, lastSpeed, lastBrightness', res)
    /\ UNCHANGED << lastMode, lastSpeed, argMode, argSpeed >>
    /\ CommandFrame

\* setSpeed with the packet built from the cache before the assignment
setSpeed_StaleSpeed(speed, res) ==
    /\ nWrites < MaxWrites
    /\ lastOp' = "setSpeed"
    /\ lastSpeed' = speed
    /\ argSpeed' = speed
    /\ sendCombined(SPEED, speed, lastMode, lastSpeed, lastBrightness, res)
    /\ UNCHANGED << lastMode, lastBrightness, argMode, argBrightness >>
    /\ CommandFrame

setSpeed(speed, res) ==
    /\ nWrites < MaxWrites
    /\ lastOp' = "setSpeed"
    /\ lastSpeed' = speed
    /\ argSpeed' = speed
    /\ sendCombined(SPEED, speed, lastMode, lastSpeed', lastBrightness, res)
    /\ UNCHANGED << lastMode, lastBrightness, argMode, argBrightness >>
    /\ CommandFrame

\* ------------------------------------------------------ the specification

Next ==
    \/ \E cb \in CallbackArgs : Connect(cb[1], cb[2], cb[3])
    \/ \E ok \in BOOLEAN : RequestDeviceDone(ok)
    \/ \E ok \in BOOLEAN : GattConnectDone(ok)
    \/ \E ok \in BOOLEAN : GetPrimaryServiceDone(ok)
    \/ \E ok \in BOOLEAN : GetCharacteristicDone(ok)
    \/ OnDisconnected
    \/ \E rgb \in RGBArgs, res \in WriteResults : setRGB(rgb[1], rgb[2], rgb[3], res)
    \/ \E s \in SwitchArgs, res \in WriteResults : setSwitch(s, res)
    \/ \E m \in ModeArgs, res \in WriteResults : setMode(m, res)
    \/ \E b \in BrightnessArgs, res \in WriteResults : setBrightness(b, res)
    \/ \E w \in SpeedArgs, res \in WriteResults : setSpeed(w, res)
    \/ \E ok \in BOOLEAN : WriteSettled(ok)

Spec == Init /\ [][Next]_vars

\* a session that connected as LED_NET_WF (the MAGIC_STRIP service lookup
\* having failed) and on which sendLedNetWf has already built n packets, n in
\* WrapStarts: the counter field is about to wrap.  The connect() and write
\* calls that led here are not counted in nConnects and nWrites.
InitWrap ==
    /\ deviceType = LED_NET_WF
    /\ counter \in WrapStarts
    /\ nSendB = counter
    /\ lastMode = 1
    /\ lastBrightness = 100
    /\ lastSpeed = 100
    /\ characteristic = guidCharacteristicLedNetWf
    /\ onConnect = TRUE /\ onDisconnect = TRUE /\ onError = TRUE
    /\ pc = "idle" /\ cand = 2
    /\ listening = TRUE /\ linkUp = TRUE
    /\ lookups = << [ kind |-> "service", type |-> MAGIC_STRIP, ok |-> FALSE ],
                    [ kind |-> "service", type |-> LED_NET_WF, ok |-> TRUE ],
                    [ kind |-> "characteristic", type |-> LED_NET_WF, ok |-> TRUE ] >>
    /\ nConnects = 0
    /\ cbConnect = 1 /\ cbError = 0 /\ cbDisconnect = 0
    /\ nWrites = 0 /\ lastWrite = NoWrite
    /\ argMode = 1 /\ argBrightness = 100 /\ argSpeed = 100
    /\ connected = TRUE /\ dropped = FALSE
    /\ lastOp = "setSwitch"
    /\ EnhancedConstructed

SpecWrap == InitWrap /\ [][Next]_vars

\* ------------------------------------------------------------ properties

\* candidate t was looked up with the given kind and outcome in this connect()
Looked(kind, t, ok) ==
    \E i \in DOMAIN lookups : lookups[i] = [ kind |-> kind, type |-> t, ok |-> ok ]

\* both lookups of candidate t succeeded
Resolved(t) == Looked("service", t, TRUE) /\ Looked("characteristic", t, TRUE)

\* candidate t was probed at all
Probed(t) == \E i \in DOMAIN lookups : lookups[i].type = t

\* candidate t failed at its service lookup or at its characteristic lookup
Failed(t) == Looked("service", t, FALSE) \/ Looked("characteristic", t, FALSE)

\* the connect() call has finished by calling the connect callback
EndedConnected == pc = "idle" /\ cbConnect > 0

\* C1: a connect() that ends by invoking on-connected leaves the family equal
\* to the first candidate, in the order MAGIC_STRIP, LED_NET_WF, KEEP_SMILE,
\* whose service and characteristic lookups both succeeded, with that
\* candidate's characteristic bound, and no later candidate was looked up; a
\* transport on which MAGIC_STRIP resolves yields MAGIC_STRIP.
C1_NegotiationPriority ==
    EndedConnected =>
        /\ \E k \in DOMAIN Candidates :
              /\ Resolved(Candidates[k])
              /\ \A j \in DOMAIN Candidates : j < k => ~Resolved(Candidates[j])
              /\ \A j \in DOMAIN Candidates : j > k => ~Probed(Candidates[j])
              /\ deviceType = Candidates[k]
              /\ characteristic = << guidCharacteristicMagicStrip,
                                     guidCharacteristicLedNetWf,
                                     guidCharacteristicKeepsmile >>[k]
        /\ Resolved(MAGIC_STRIP) => deviceType = MAGIC_STRIP /\ Len(lookups) = 2

\* a connect() that fell through to the second candidate after the first
\* one's characteristic lookup failed, and ended connected
C1_Witness ==
    /\ EndedConnected
    /\ Looked("service", MAGIC_STRIP, TRUE)
    /\ Looked("characteristic", MAGIC_STRIP, FALSE)
    /\ Resolved(LED_NET_WF)
    /\ deviceType = LED_NET_WF

\* the first connect() of the session has finished and every candidate failed
FirstConnectExhausted ==
    /\ pc = "idle"
    /\ nConnects = 1
    /\ \A k \in DOMAIN Candidates : Failed(Candidates[k])

\* C2: if all three candidates fail during connect() on a fresh session, the
\* family is still UNKNOWN when connect() finishes.
C2_NoPartialState == FirstConnectExhausted => deviceType = UNKNOWN

\* C3: when all three getPrimaryService lookups fail during connect() on a
\* fresh session, the registered error callback is called exactly once, the
\* connect callback is not called, no handle is bound and the family is UNKNOWN.
C3_Exhaustion ==
    ( /\ pc = "idle"
      /\ nConnects = 1
      /\ onError
      /\ \A k \in DOMAIN Candidates : Looked("service", Candidates[k], FALSE) )
    => /\ cbError = 1
       /\ cbConnect = 0
       /\ characteristic = undefined
       /\ deviceType = UNKNOWN

C3_Witness ==
    /\ pc = "idle"
    /\ nConnects = 1
    /\ onError
    /\ \A k \in DOMAIN Candidates : Looked("service", Candidates[k], FALSE)
    /\ cbError = 1

\* C4: on a fresh session no command produces a transport write before a
\* connect() has succeeded: not before connect() is called, not at an await
\* of a negotiation in progress, not after a failed connect().
C4_NoWriteBeforeConnected == ~connected => nWrites = 0

\* a command was called on a session whose first connect() failed after a
\* family had been tentatively assigned
C4_Witness ==
    /\ ~connected
    /\ pc = "idle"
    /\ nConnects = 1
    /\ deviceType = LED_NET_WF
    /\ lastOp = "setSpeed"
    /\ lastSpeed = 30
    /\ nWrites = 0

\* C5: on a LED_NET_WF or KEEP_SMILE session the packet sent by setMode,
\* setBrightness or setSpeed carries the last argument of each of the three
\* setters (the default where a setter was never called), as bytes: payload
\* [mode, speed, brightness] for LED_NET_WF, and
\* 0x5C,0x00,mode+128,speed,brightness,0x00,0xC5 for KEEP_SMILE.
C5_CombinedPayload ==
    [][ ( /\ nWrites' = nWrites + 1
          /\ lastOp' \in { "setMode", "setBrightness", "setSpeed" } )
        => /\ deviceType = LED_NET_WF =>
                SubSeq(lastWrite'.packet, 10, 12)
                    = Uint8Array(<< argMode', argSpeed', argBrightness' >>)
           /\ deviceType = KEEP_SMILE =>
                lastWrite'.packet
                    = Uint8Array(<< 92, 0, argMode' + 128, argSpeed', argBrightness', 0, 197 >>)
      ]_vars

\* setBrightness(50) then setSpeed(30) on a LED_NET_WF session: the second
\* packet carries mode 1, speed 30, brightness 50
C5_Witness ==
    /\ deviceType = LED_NET_WF
    /\ lastOp = "setSpeed"
    /\ nWrites = 2
    /\ argMode = 1 /\ argSpeed = 30 /\ argBrightness = 50
    /\ Len(lastWrite.packet) = 13
    /\ SubSeq(lastWrite.packet, 10, 12) = << 1, 30, 50 >>

RECURSIVE SumBytes(_, _, _)
\* the sum of the bytes p[i..j], indexes from 1
SumBytes(p, i, j) == IF i > j THEN 0 ELSE p[i] + SumBytes(p, i + 1, j)

\* C6: every LED_NET_WF packet handed to the transport has its last byte equal
\* to the sum of the bytes at indexes 9 through length-2 (from 0), modulo 256.
C6_Checksum ==
    lastWrite.dialect = "LedNetWf" =>
        lastWrite.packet[Len(lastWrite.packet)]
            = SumBytes(lastWrite.packet, 10, Len(lastWrite.packet) - 1) % 256

\* the two-byte big-endian counter field of a LED_NET_WF packet
CounterField(packet) == packet[1] * 256 + packet[2]

\* C7: the counter field of the k-th LED_NET_WF packet of a session is
\* k mod 65536, and a packet that directly follows another LED_NET_WF packet
\* carries that packet's field plus one modulo 65536, also across the wrap
\* from 0xFFFF to 0x0000.
C7_CounterField ==
    [][ nSendB' = nSendB + 1
        => /\ CounterField(lastWrite'.packet) = nSendB' % 65536
           /\ lastWrite.dialect = "LedNetWf" =>
                CounterField(lastWrite'.packet)
                    = (CounterField(lastWrite.packet) + 1) % 65536
      ]_vars

\* the 65536th packet directly follows the 65535th and carries the field 0
C7_Witness ==
    /\ nSendB = 65536
    /\ nWrites = 2
    /\ lastWrite.dialect = "LedNetWf"
    /\ CounterField(lastWrite.packet) = 0

\* C8: the counter changes only when sendLedNetWf builds a packet for a bound
\* handle, and then by exactly one; commands on a MAGIC_STRIP, KEEP_SMILE or
\* UNKNOWN session or with no handle bound, connect() and the disconnect event
\* leave it unchanged.
C8_CounterFrame ==
    [][ /\ counter' # counter =>
             /\ counter' = counter + 1
             /\ deviceType = LED_NET_WF
             /\ characteristic # undefined
             /\ nWrites' = nWrites + 1
             /\ lastWrite'.dialect = "LedNetWf"
        /\ ( nWrites' = nWrites + 1 /\ lastWrite'.dialect = "LedNetWf" ) =>
             counter' = counter + 1
        /\ ( nWrites' = nWrites + 1 /\ lastWrite'.dialect # "LedNetWf" ) =>
             counter' = counter
      ]_vars

\* sendLedNetWf has built two packets for the bound handle of a LED_NET_WF
\* session, and the counter went from 0 to 2
C8_Witness ==
    /\ deviceType = LED_NET_WF
    /\ characteristic # undefined
    /\ nWrites = 2
    /\ nSendB = 2
    /\ counter = 2

\* C9: after the disconnect event was delivered for a connected session no
\* command results in a transport write until a new connect() succeeds.
C9_NoWriteAfterDisconnect == [][ dropped => nWrites' = nWrites ]_vars

\* a write call failed in this step: it threw, or its promise was rejected
WriteFailedStep ==
    \/ nWrites' = nWrites + 1 /\ lastWrite'.result = "throw"
    \/ lastWrite.result = "pending" /\ lastWrite'.result = "rejected"

\* C10: when the transport write of a command fails, the registered error
\* callback is called for that failure.
C10_WriteFailureReported ==
    [][ ( onError /\ WriteFailedStep ) => cbError' = cbError + 1 ]_vars

\* a step of one of the five commands, with any of the arguments of Next
CommandStep ==
    \/ \E rgb \in RGBArgs, res \in WriteResults : setRGB(rgb[1], rgb[2], rgb[3], res)
    \/ \E s \in SwitchArgs, res \in WriteResults : setSwitch(s, res)
    \/ \E m \in ModeArgs, res \in WriteResults : setMode(m, res)
    \/ \E b \in BrightnessArgs, res \in WriteResults : setBrightness(b, res)
    \/ \E w \in SpeedArgs, res \in WriteResults : setSpeed(w, res)

\* C11: a command called while the family is UNKNOWN is a silent no-op: it
\* issues no transport write and leaves the family, the write handle, the
\* counter and the last-applied mode, brightness and speed unchanged.
C11_SilentNoOp ==
    [][ ( deviceType = UNKNOWN /\ CommandStep )
        => /\ nWrites' = nWrites
           /\ UNCHANGED << deviceType, characteristic, counter,
                           lastMode, lastBrightness, lastSpeed >>
      ]_vars

\* C12: once a connect() has succeeded and assigned a family, the family never
\* changes: not by a command, not by the disconnect event, not by a later
\* connect() on the same session.
C12_FamilyImmutable == [][ connected => deviceType' = deviceType ]_vars

\* the first byte of the packet each command sends in each dialect (for
\* LedNetWf the second byte of the command-group selector)
KindByte(dialect, op) ==
    CASE dialect = "MagicStrip" ->
           ( CASE op = "setRGB" -> RGB
               [] op = "setSwitch" -> SWITCH
               [] op = "setMode" -> MODE
               [] op = "setBrightness" -> BRIGHTNESS
               [] OTHER -> SPEED )
      [] dialect = "LedNetWf" ->
           ( IF op \in { "setRGB", "setSwitch" } THEN 59 ELSE 56 )
      [] OTHER ->
           ( CASE op = "setRGB" -> 90
               [] op = "setSwitch" -> 91
               [] OTHER -> 92 )

\* the byte of a packet that tells the command apart
KindOf(w) == IF w.dialect = "LedNetWf" THEN w.packet[9] ELSE w.packet[1]

\* a step of some command, whatever its arguments: the steps that leave alone
\* what every command leaves alone, the settling of a write excepted (the
\* steps of connect() change the negotiation, the disconnect event linkUp)
CommandTaken ==
    /\ CommandFrame
    /\ ~ \E ok \in BOOLEAN : WriteSettled(ok)

\* C13: every command called on a connected session makes exactly one
\* transport write call within the command, with the packet of that command,
\* so the packets reach the transport in the order the commands were called,
\* and the counter fields of LED_NET_WF packets follow that order.
C13_SubmissionOrder ==
    [][ ( connected /\ CommandTaken )
        => /\ nWrites' = nWrites + 1
           /\ lastWrite'.to = characteristic
           /\ KindOf(lastWrite') = KindByte(lastWrite'.dialect, lastOp')
           /\ lastWrite'.dialect = "LedNetWf" =>
                /\ nSendB' = nSendB + 1
                /\ CounterField(lastWrite'.packet) = nSendB' % 65536
      ]_vars

\* setRGB then setSwitch were called on a connected KEEP_SMILE session: two
\* writes, the last one the switch packet
C13_Witness ==
    /\ connected
    /\ deviceType = KEEP_SMILE
    /\ nWrites = 2
    /\ lastOp = "setSwitch"
    /\ lastWrite.packet[1] = 91

\* a step of connect(): the call itself or the continuation of one of its awaits
ConnectStep ==
    \/ \E cb \in CallbackArgs : Connect(cb[1], cb[2], cb[3])
    \/ \E ok \in BOOLEAN : RequestDeviceDone(ok)
    \/ \E ok \in BOOLEAN : GattConnectDone(ok)
    \/ \E ok \in BOOLEAN : GetPrimaryServiceDone(ok)
    \/ \E ok \in BOOLEAN : GetCharacteristicDone(ok)

\* the step in which connect() succeeds: the characteristic lookup resolved
ConnectSucceeds == GetCharacteristicDone(TRUE)

\* C14: connect() never writes the last-applied fields or the counter, and
\* when it succeeds the session has last-applied mode 1, brightness 100 and
\* speed 100.
C14_DefaultsAfterConnect ==
    [][ /\ ConnectStep =>
             UNCHANGED << lastMode, lastBrightness, lastSpeed, counter >>
        /\ ConnectSucceeds =>
             lastMode' = 1 /\ lastBrightness' = 100 /\ lastSpeed' = 100
      ]_vars

\* ------------------------------------------- the commands on wider inputs

\* channel values of the colours given to setRGB: black, the pure colours and
\* mixtures lie among the triples over them
ColorChannel == { 0, 10, 200, 255 }
ColorInputs == ColorChannel \X ColorChannel \X ColorChannel
\* a colour whose channels lie outside 0..255 (the parameters are numbers)
OverRGBArgs == { << 300, 0, 256 >> }
\* arguments inside and outside the range of a byte
WideModeArgs == { 2, 200 }
WideBrightnessArgs == { 50, 300 }
WideSpeedArgs == { 30, 256 }

\* the lookups of one connect() that ended with the k-th candidate connected
ConnectedLookups(k) ==
    [ i \in 1..(k + 1) |->
        IF i < k THEN [ kind |-> "service", type |-> Candidates[i], ok |-> FALSE ]
        ELSE IF i = k THEN [ kind |-> "service", type |-> Candidates[k], ok |-> TRUE ]
        ELSE [ kind |-> "characteristic", type |-> Candidates[k], ok |-> TRUE ] ]

\* a session that has just connected, as any of the three device types, and
\* has not sent anything yet.  The connect() call that led here is not counted
\* in nConnects.
InitCmd ==
    \E k \in 1..Len(Candidates) :
        /\ deviceType = Candidates[k]
        /\ characteristic = CharacteristicOf(Candidates[k])
        /\ counter = 0
        /\ nSendB = 0
        /\ lastMode = 1
        /\ lastBrightness = 100
        /\ lastSpeed = 100
        /\ onConnect = TRUE /\ onDisconnect = TRUE /\ onError = TRUE
        /\ pc = "idle" /\ cand = k
        /\ listening = TRUE /\ linkUp = TRUE
        /\ lookups = ConnectedLookups(k)
        /\ nConnects = 0
        /\ cbConnect = 1 /\ cbError = 0 /\ cbDisconnect = 0
        /\ nWrites = 0 /\ lastWrite = NoWrite
        /\ argMode = 1 /\ argBrightness = 100 /\ argSpeed = 100
        /\ connected = TRUE /\ dropped = FALSE
        /\ lastOp = "none"
        /\ EnhancedConstructed

\* the commands and the settling of their writes, on the wider inputs
NextCmd ==
    \/ \E rgb \in ColorInputs \cup OverRGBArgs, res \in WriteResults :
          setRGB(rgb[1], rgb[2], rgb[3], res)
    \/ \E s \in SwitchArgs, res \in WriteResults : setSwitch(s, res)
    \/ \E m \in WideModeArgs, res \in WriteResults : setMode(m, res)
    \/ \E b \in WideBrightnessArgs, res \in WriteResults : setBrightness(b, res)
    \/ \E w \in WideSpeedArgs, res \in WriteResults : setSpeed(w, res)
    \/ \E ok \in BOOLEAN : WriteSettled(ok)

SpecCmd == InitCmd /\ [][NextCmd]_vars

\* the hue, saturation and value bytes of a LED_NET_WF colour packet: they
\* follow the counter, the frame, the selector 11,59 and the byte 161
HsvBytes(packet) == SubSeq(packet, 11, 13)

\* a step of setRGB(red, green, blue) on a LED_NET_WF session that is bound
ColourSet(red, green, blue) ==
    /\ deviceType = LED_NET_WF
    /\ characteristic # undefined
    /\ \E res \in WriteResults : setRGB(red, green, blue, res)

\* C16 as the specification states it: setRGB(0,0,0) on a LED_NET_WF session
\* sends the HSV bytes 0,0,0 and setRGB(255,0,0) sends hue 0, saturation 100,
\* value 100.
C16_RedIsHueZero ==
    [][ /\ ColourSet(0, 0, 0) => HsvBytes(lastWrite'.packet) = << 0, 0, 0 >>
        /\ ColourSet(255, 0, 0) => HsvBytes(lastWrite'.packet) = << 0, 100, 100 >> ]_vars

\* C16: setRGB(0,0,0) on a LED_NET_WF session sends the HSV bytes 0,0,0;
\* setRGB(255,0,0) sends hue 60, saturation 100, value 100, because rgb2hsv
\* takes its first parameter for the green channel (120 degrees, halved); the
\* colour that is sent with hue 0, saturation 100, value 100 is (0,255,0).
C16_RedIsHueSixty ==
    [][ /\ ColourSet(0, 0, 0) => HsvBytes(lastWrite'.packet) = << 0, 0, 0 >>
        /\ ColourSet(255, 0, 0) => HsvBytes(lastWrite'.packet) = << 60, 100, 100 >>
        /\ ColourSet(0, 255, 0) => HsvBytes(lastWrite'.packet) = << 0, 100, 100 >> ]_vars

\* a LED_NET_WF colour packet with hue 60, saturation 100, value 100 has been
\* written: among ColorInputs only setRGB(255,0,0) produces it
C16_Witness ==
    /\ deviceType = LED_NET_WF
    /\ lastOp = "setRGB"
    /\ nWrites > 0
    /\ lastWrite.dialect = "LedNetWf"
    /\ HsvBytes(lastWrite.packet) = << 60, 100, 100 >>

\* rgb2hsv on every colour of ColorInputs, and the bytes that
\* Uint8Array.from makes of the result
HsvOf == [ rgb \in ColorInputs |-> rgb2hsv(rgb[1], rgb[2], rgb[3]) ]
HsvBytesOf == [ rgb \in ColorInputs |-> Uint8ArrayFrom(HsvOf[rgb]) ]

\* the whole part of a fraction, and of each fraction of a sequence
Whole(x) == x.n \div x.d
Wholes(nums) == [ i \in DOMAIN nums |-> Whole(nums[i]) ]

\* 0 <= x < bound and 0 <= x <= bound for a fraction x
Below(x, bound) == 0 <= x.n /\ x.n < bound * x.d
UpTo(x, bound) == 0 <= x.n /\ x.n <= bound * x.d

\* a step in which a LED_NET_WF session writes the packet of a setRGB
ColourWritten ==
    /\ deviceType = LED_NET_WF
    /\ lastOp' = "setRGB"
    /\ nWrites' = nWrites + 1

\* C17: for every colour of ColorInputs rgb2hsv returns a hue in [0,180) and
\* a saturation and a value in [0,100], and the three HSV bytes of the packet
\* that setRGB writes for it on a LED_NET_WF session are the whole parts of
\* these numbers themselves, not residues modulo 256.  (Only the colours whose
\* bytes the written packet carries can be the argument of the step.)
C17_HsvFitsByte ==
    [][ ColourWritten =>
          \A rgb \in { c \in ColorInputs : HsvBytesOf[c] = HsvBytes(lastWrite'.packet) } :
              ColourSet(rgb[1], rgb[2], rgb[3]) =>
                  /\ Below(HsvOf[rgb][1], 180)
                  /\ UpTo(HsvOf[rgb][2], 100)
                  /\ UpTo(HsvOf[rgb][3], 100)
                  /\ HsvBytes(lastWrite'.packet) = Wholes(HsvOf[rgb]) ]_vars

\* setRGB(0,255,10) on a LED_NET_WF session: the hue is 178.8..., the largest
\* of ColorInputs, and the bytes are 178, 100, 100
C17_Witness ==
    /\ deviceType = LED_NET_WF
    /\ lastOp = "setRGB"
    /\ nWrites > 0
    /\ lastWrite.dialect = "LedNetWf"
    /\ HsvBytes(lastWrite.packet) = << 178, 100, 100 >>

\* the byte of a written packet that carries the argument of setMode,
\* setBrightness or setSpeed
ArgByte(w, op) ==
    CASE w.dialect = "MagicStrip" -> w.packet[2]
      [] w.dialect = "LedNetWf" ->
           w.packet[CASE op = "setMode" -> 10 [] op = "setSpeed" -> 11 [] OTHER -> 12]
      [] OTHER ->
           w.packet[CASE op = "setMode" -> 3 [] op = "setSpeed" -> 4 [] OTHER -> 5]

\* the step hands one packet to the transport
Issued == nWrites' = nWrites + 1

\* C18: on a connected session a command with an argument outside 0..255
\* (mode 200, brightness 300, speed 256, colour 300,0,256) still issues its
\* packet; the byte that carries the argument is the argument modulo 256
\* (for the KEEP_SMILE mode byte, mode + 128 modulo 256), and lastMode,
\* lastBrightness, lastSpeed hold the argument as given.
C18_NoRangeCheck ==
    [][ /\ \A m \in WideModeArgs :
             (\E res \in WriteResults : setMode(m, res)) =>
                 /\ Issued
                 /\ lastMode' = m
                 /\ ArgByte(lastWrite', "setMode")
                      = (IF deviceType = KEEP_SMILE THEN m + 128 ELSE m) % 256
        /\ \A b \in WideBrightnessArgs :
             (\E res \in WriteResults : setBrightness(b, res)) =>
                 /\ Issued
                 /\ lastBrightness' = b
                 /\ ArgByte(lastWrite', "setBrightness") = b % 256
        /\ \A w \in WideSpeedArgs :
             (\E res \in WriteResults : setSpeed(w, res)) =>
                 /\ Issued
                 /\ lastSpeed' = w
                 /\ ArgByte(lastWrite', "setSpeed") = w % 256
        /\ \A rgb \in OverRGBArgs :
             (\E res \in WriteResults : setRGB(rgb[1], rgb[2], rgb[3], res)) =>
                 /\ Issued
                 /\ deviceType = MAGIC_STRIP =>
                      SubSeq(lastWrite'.packet, 2, 4)
                          = << rgb[1] % 256, rgb[2] % 256, rgb[3] % 256 >>
                 /\ deviceType = KEEP_SMILE =>
                      SubSeq(lastWrite'.packet, 4, 6)
                          = << rgb[1] % 256, rgb[2] % 256, rgb[3] % 256 >> ]_vars

\* setBrightness(300) then setMode(200) on a KEEP_SMILE session: the packet
\* carries the mode byte (200 + 128) % 256 = 72 and the brightness byte
\* 300 % 256 = 44, and the cache holds 200 and 300
C18_Witness ==
    /\ deviceType = KEEP_SMILE
    /\ lastOp = "setMode"
    /\ nWrites = 2
    /\ lastMode = 200 /\ lastBrightness = 300
    /\ lastWrite.packet = << 92, 0, 72, 100, 44, 0, 197 >>

\* C19: in every reachable state deviceType differs from UNKNOWN exactly when
\* the write characteristic is bound.
C19_FamilyIffBound ==
    (deviceType # UNKNOWN) <=> (characteristic # undefined)

\* the characteristic that speaks the dialect of a written packet
CharacteristicOfDialect(dialect) ==
    CASE dialect = "MagicStrip" -> guidCharacteristicMagicStrip
      [] dialect = "LedNetWf"   -> guidCharacteristicLedNetWf
      [] dialect = "Keepsmile"  -> guidCharacteristicKeepsmile
      [] OTHER                  -> undefined

\* C20: across repeated connects, whenever the write characteristic is bound
\* it is the characteristic of the current deviceType, and every packet
\* handed to the transport went to the characteristic of its own dialect.
C20_HandleMatchesFamily ==
    /\ characteristic # undefined => characteristic = CharacteristicOf(deviceType)
    /\ lastWrite.to = CharacteristicOfDialect(lastWrite.dialect)

\* a step in which setMode, setBrightness or setSpeed hands its packet to the
\* transport and the write call throws
SetterWriteThrows ==
    /\ nWrites' = nWrites + 1
    /\ lastOp' \in { "setMode", "setBrightness", "setSpeed" }
    /\ lastWrite'.result = "throw"

\* C21: a setMode, setBrightness or setSpeed whose transport write fails
\* leaves lastMode, lastBrightness and lastSpeed as they were before the call.
C21_FailedWriteNotApplied ==
    [][ SetterWriteThrows => UNCHANGED << lastMode, lastBrightness, lastSpeed >> ]_vars

\* the payload length byte of a LED_NET_WF packet
LengthByte(packet) == packet[6]

\* C22: every LED_NET_WF packet handed to the transport starts with the two
\* counter bytes, has 128,0,0 in bytes 2-4, L in byte 5 and L+1 in byte 6, and
\* is L+8 bytes long, L being the number of selector and payload bytes: 21
\* bytes with L = 13 for setRGB and setSwitch, 13 bytes with L = 5 for
\* setMode, setBrightness and setSpeed.
C22_LedNetWfLayout ==
    ( lastWrite.dialect = "LedNetWf" ) =>
        LET packet == lastWrite.packet
            L == IF lastOp \in { "setRGB", "setSwitch" } THEN 13 ELSE 5
        IN  /\ CounterField(packet) = nSendB % 65536
            /\ SubSeq(packet, 3, 5) = << 128, 0, 0 >>
            /\ LengthByte(packet) = L
            /\ packet[7] = L + 1
            /\ Len(packet) = L + 8
            /\ SubSeq(packet, 8, 9) = << 11, IF L = 13 THEN 59 ELSE 56 >>

\* setSwitch then setSpeed on a LED_NET_WF session: a 21-byte packet was
\* written, then the 13-byte combined packet
C22_Witness ==
    /\ deviceType = LED_NET_WF
    /\ nWrites = 2
    /\ lastOp = "setSpeed"
    /\ lastWrite.dialect = "LedNetWf"
    /\ Len(lastWrite.packet) = 13
    /\ LengthByte(lastWrite.packet) = 5

\* the colours of RGBArgs as the bytes a packet carries them in
RGBBytes == { Uint8Array(rgb) : rgb \in RGBArgs }

\* C23: the packet that setRGB writes on a KEEP_SMILE session is
\* 0x5A,0x00,0x01,r,g,b,0x00,B,0x00,0xA5, where r,g,b is a colour given to
\* setRGB and B the byte of the last argument of setBrightness (100 when
\* setBrightness was never called), whatever setMode, setSpeed, setSwitch and
\* setRGB calls were made in between.
C23_KeepsmileColourPacket ==
    ( lastWrite.dialect = "Keepsmile" /\ lastOp = "setRGB" ) =>
        LET packet == lastWrite.packet
        IN  /\ Len(packet) = 10
            /\ SubSeq(packet, 1, 3) = << 90, 0, 1 >>
            /\ SubSeq(packet, 4, 6) \in RGBBytes
            /\ SubSeq(packet, 7, 10) = << 0, argBrightness % 256, 0, 165 >>

\* setBrightness(50) and setMode(2) were called, one of them before the
\* session was connected, and then setRGB(255,0,0) on the KEEP_SMILE session:
\* the colour packet carries brightness 50
C23_Witness ==
    /\ deviceType = KEEP_SMILE
    /\ lastOp = "setRGB"
    /\ nWrites = 2
    /\ argBrightness = 50 /\ argMode = 2
    /\ lastWrite.packet = << 90, 0, 1, 255, 0, 0, 0, 50, 0, 165 >>

\* C24: every packet written on a MAGIC_STRIP session is the method code of
\* the command followed by the command's own arguments and nothing else:
\* 7,mode for setMode, 8,brightness for setBrightness, 9,speed for setSpeed,
\* 3,r,g,b for setRGB and 4,switch for setSwitch; no byte comes from the other
\* cached values or the counter, and the three setters have stored their
\* argument in lastMode, lastBrightness, lastSpeed.
C24_MagicStripPacket ==
    ( lastWrite.dialect = "MagicStrip" ) =>
        LET packet == lastWrite.packet
        IN  CASE lastOp = "setMode" ->
                   packet = << MODE, argMode % 256 >> /\ lastMode = argMode
              [] lastOp = "setBrightness" ->
                   packet = << BRIGHTNESS, argBrightness % 256 >> /\ lastBrightness = argBrightness
              [] lastOp = "setSpeed" ->
                   packet = << SPEED, argSpeed % 256 >> /\ lastSpeed = argSpeed
              [] lastOp = "setRGB" ->
                   /\ Len(packet) = 4
                   /\ packet[1] = RGB
                   /\ SubSeq(packet, 2, 4) \in RGBBytes
              [] lastOp = "setSwitch" ->
                   /\ Len(packet) = 2
                   /\ packet[1] = SWITCH
                   /\ packet[2] \in SwitchArgs
              [] OTHER -> FALSE

\* setBrightness(50) then setMode(2) on a MAGIC_STRIP session: the second
\* packet is 7,2 although the cache holds brightness 50
C24_Witness ==
    /\ deviceType = MAGIC_STRIP
    /\ nWrites = 2
    /\ lastOp = "setMode"
    /\ lastBrightness = 50 /\ lastMode = 2
    /\ lastWrite.packet = << 7, 2 >>

\* a step of a command, whatever the command does to the session: every step
\* of connect() moves the negotiation and the disconnect event takes the link
\* down, so a step that does neither and is not the settling of a write is a
\* step of a command
CommandCalled ==
    /\ UNCHANGED << negotiation, linkUp >>
    /\ ~ \E ok \in BOOLEAN : WriteSettled(ok)

\* C25: setRGB and setSwitch leave lastMode, lastBrightness and lastSpeed
\* alone, setMode changes only lastMode among them, setBrightness only
\* lastBrightness, setSpeed only lastSpeed, and no command changes deviceType
\* or characteristic.
C25_CommandFrame ==
    [][ CommandCalled =>
          /\ UNCHANGED << deviceType, characteristic >>
          /\ lastOp' \in { "setRGB", "setSwitch" } =>
                UNCHANGED << lastMode, lastBrightness, lastSpeed >>
          /\ lastOp' = "setMode" => UNCHANGED << lastBrightness, lastSpeed >>
          /\ lastOp' = "setBrightness" => UNCHANGED << lastMode, lastSpeed >>
          /\ lastOp' = "setSpeed" => UNCHANGED << lastMode, lastBrightness >> ]_vars

\* setSpeed(30), setBrightness(50), then a setSwitch that wrote its packet on
\* a LED_NET_WF session: the cache still holds speed 30 and brightness 50
C25_Witness ==
    /\ deviceType = LED_NET_WF
    /\ lastOp = "setSwitch"
    /\ nWrites > 0
    /\ lastWrite.dialect = "LedNetWf"
    /\ Len(lastWrite.packet) = 21
    /\ lastSpeed = 30 /\ lastBrightness = 50 /\ lastMode = 1

\* ------------------------------------------- a connect callback that throws

\* getCharacteristic of the current candidate resolves and the connect
\* callback, called inside the try block of connect(), throws: the exception
\* reaches the outer catch, which calls the error callback.  (In Next the
\* callbacks return normally.)
OnConnectThrows ==
    /\ pc = "getCharacteristic"
    /\ linkUp
    /\ onConnect
    /\ lookups' = Append(lookups, [ kind |-> "characteristic", type |-> Candidates[cand], ok |-> TRUE ])
    /\ characteristic' = CharacteristicOf(Candidates[cand])
    /\ cbConnect' = cbConnect + 1
    /\ cbError' = IF onError THEN cbError + 1 ELSE cbError
    /\ pc' = "idle"
    /\ connected' = TRUE
    /\ dropped' = FALSE
    /\ UNCHANGED << cand, cbDisconnect >>
    /\ UNCHANGED << deviceType, counter, lastMode, lastBrightness, lastSpeed,
                    callbacks, listening, linkUp, nConnects, transport, args, lastOp >>
    /\ UNCHANGED enhanced

NextThrow ==
    \/ Next
    \/ OnConnectThrows

SpecThrow == Init /\ [][NextThrow]_vars

\* C26: a connect() call that was given a connect and an error callback and
\* has ended has called exactly one of the two, once; none is called while the
\* call is still negotiating; and the connect callback is called only with a
\* deviceType assigned and the characteristic bound.
C26_ExactlyOneCallback ==
    ( nConnects > 0 /\ onConnect /\ onError ) =>
        /\ pc = "idle" => cbConnect + cbError = 1
        /\ pc # "idle" => cbConnect + cbError = 0
        /\ cbConnect > 0 => ( deviceType # UNKNOWN /\ characteristic # undefined )

\* C27: within one connect() call the disconnect callback is never called
\* before the connect callback of that call has been called.
C27_DisconnectAfterConnect ==
    ( nConnects > 0 /\ onConnect /\ onDisconnect ) =>
        ( cbDisconnect > 0 => cbConnect > 0 )

\* ===================================================================
\* The Device of dist/BluetoothLedStrip.js: one service, every command
\* builds a fixed 21-byte packet and awaits _writePacket.  The caller awaits
\* each command before calling the next; connect() may be in progress
\* meanwhile.  Arguments are integers.
\* ===================================================================

MaxCalls == 2

LEDNETWF_CHAR_UUID == "0000fff1"

\* arguments inside and outside the documented ranges
DistColours == { << 255, 128, 0 >>, << 300, -5, 0 >> }
DistTemperatures == { 0, 75, 150 }
DistLevels == { 0, 80, 120 }
DistModes == { 0, 50, 200 }
DistSwitches == { 0, 1 }
\* kelvin values below, at the ends of, inside and above 2700..6500.  The code
\* computes ((kelvin - 2700) / 3800) * 100 in doubles and the model exactly:
\* both round to the same byte on these values (of the integers in
\* 2700..6500 only 3251, 3783, 4847 and 4885 round differently).
KelvinArgs == { 2000, 2700, 2719, 3500, 4600, 6500, 9000 }

\* Math.max(lo, Math.min(hi, x))
Clamp(lo, hi, x) == IF x > hi THEN hi ELSE IF x < lo THEN lo ELSE x

\* Math.round of a fraction: the nearest integer, halves rounded up
MathRound(x) == (2 * x.n + x.d) \div (2 * x.d)

\* _calculateChecksum(packet): the sum of packet[9] .. packet[length - 2]
\* (indexes from 0), reduced to a byte
calculateChecksum(packet) == SumBytes(packet, 10, Len(packet) - 1) % 256

\* packet[20] = this._calculateChecksum(packet)
Checksummed(packet) == [ packet EXCEPT ![21] = calculateChecksum(packet) ]

\* _writePacket whose catch rethrows without calling the error callback
writePacket_Silent(op, as, packet) ==
    /\ distRun.callPc = "idle"
    /\ distRun.nCalls < MaxCalls
    /\ IF dist.characteristic = "null"
       THEN distRun' = [ distRun EXCEPT !.call = op, !.args = as, !.nCalls = @ + 1,
                                        !.packet = << >>,
                                        !.error = "Device not connected",
                                        !.outcome = "rejected" ]
       ELSE distRun' = [ distRun EXCEPT !.call = op, !.args = as, !.nCalls = @ + 1,
                                        !.callPc = "writeValue",
                                        !.packet = packet,
                                        !.nWriteValue = @ + 1,
                                        !.outcome = "pending" ]
    /\ UNCHANGED << dist, original >>

\* _writePacket(packet) as called by command op with arguments as, up to the
\* await of writeValue: with no characteristic it throws, the catch calls the
\* error callback if there is one and rethrows, so the command rejects
writePacket(op, as, packet) ==
    /\ distRun.callPc = "idle"
    /\ distRun.nCalls < MaxCalls
    /\ IF dist.characteristic = "null"
       THEN distRun' = [ distRun EXCEPT !.call = op, !.args = as, !.nCalls = @ + 1,
                                        !.packet = << >>,
                                        !.nOnError = IF dist.onErrorCallback THEN @ + 1 ELSE @,
                                        !.error = "Device not connected",
                                        !.outcome = "rejected" ]
       ELSE distRun' = [ distRun EXCEPT !.call = op, !.args = as, !.nCalls = @ + 1,
                                        !.callPc = "writeValue",
                                        !.packet = packet,
                                        !.nWriteValue = @ + 1,
                                        !.outcome = "pending" ]
    /\ UNCHANGED << dist, original >>

\* the awaited writeValue settles: _writePacket returns true, or its catch
\* calls the error callback if there is one and rethrows
writeValueDone(ok) ==
    /\ distRun.callPc = "writeValue"
    /\ IF ok
       THEN distRun' = [ distRun EXCEPT !.callPc = "idle", !.outcome = "resolved" ]
       ELSE distRun' = [ distRun EXCEPT !.callPc = "idle",
                                        !.nOnError = IF dist.onErrorCallback THEN @ + 1 ELSE @,
                                        !.error = "writeValue rejected",
                                        !.outcome = "rejected" ]
    /\ UNCHANGED << dist, original >>

\* connect(onConnect, onDisconnect, onError) of the dist Device up to the
\* await of requestDevice
dist_connect(c, d, e) ==
    /\ distRun.connectPc = "idle"
    /\ distRun.nConnects < MaxConnects
    /\ dist' = [ dist EXCEPT !.onConnectCallback = c, !.onDisconnectCallback = d,
                             !.onErrorCallback = e ]
    /\ distRun' = [ distRun EXCEPT !.connectPc = "requestDevice", !.nConnects = @ + 1 ]
    /\ UNCHANGED original

\* the await connect() is suspended at settles: a rejection reaches the catch,
\* which calls the error callback if there is one and rethrows; the
\* resolution of getCharacteristic binds the characteristic and connect()
\* returns after the connect callback
dist_connectAwaitDone(ok) ==
    /\ distRun.connectPc # "idle"
    /\ IF ~ ok
       THEN /\ distRun' = [ distRun EXCEPT !.connectPc = "idle",
                                           !.nOnError = IF dist.onErrorCallback THEN @ + 1 ELSE @,
                                           !.error = "connect rejected" ]
            /\ dist' = dist
       ELSE CASE distRun.connectPc = "requestDevice" ->
                   /\ dist' = [ dist EXCEPT !.device = "device" ]
                   /\ distRun' = [ distRun EXCEPT !.connectPc = "gattConnect" ]
              [] distRun.connectPc = "gattConnect" ->
                   /\ distRun' = [ distRun EXCEPT !.connectPc = "getPrimaryService" ]
                   /\ dist' = dist
              [] distRun.connectPc = "getPrimaryService" ->
                   /\ distRun' = [ distRun EXCEPT !.connectPc = "getCharacteristic" ]
                   /\ dist' = dist
              [] OTHER ->
                   /\ dist' = [ dist EXCEPT !.characteristic = LEDNETWF_CHAR_UUID ]
                   /\ distRun' = [ distRun EXCEPT !.connectPc = "idle" ]
    /\ UNCHANGED original

\* the packet setWhiteTemperature(temperature, brightness) builds;
\* temperature is a fraction, brightness an integer
WhiteTemperaturePacket(temperature, brightness) ==
    LET t == Clamp(0, 100, MathRound(temperature))
        b == Clamp(0, 100, MathRound(Frac(brightness, 1)))
    IN  Checksummed(Uint8Array(<< 0, 16, 128, 0, 0, 13, 14, 11,
                                  59, 177, 0, 0, 0,
                                  t, b,
                                  0, 0, 0, 0, 0,
                                  0 >>))

\* the packets of setWarmWhite(level), setCoolWhite(level), setNeutralWhite(level)
WarmWhitePacket(level) == WhiteTemperaturePacket(Frac(0, 1), level)
CoolWhitePacket(level) == WhiteTemperaturePacket(Frac(100, 1), level)
NeutralWhitePacket(level) == WhiteTemperaturePacket(Frac(50, 1), level)

dist_setRGB(red, green, blue) ==
    LET r == Clamp(0, 255, MathRound(Frac(red, 1)))
        g == Clamp(0, 255, MathRound(Frac(green, 1)))
        b == Clamp(0, 255, MathRound(Frac(blue, 1)))
    IN  writePacket("setRGB", << red, green, blue >>,
                    Checksummed(Uint8Array(<< 0, 5, 128, 0, 0, 13, 14, 11,
                                              59, 161, r, g, b, 0, 0, 0,
                                              0, 0, 0, 0, 0 >>)))

dist_setWhiteTemperature(temperature, brightness) ==
    writePacket("setWhiteTemperature", << temperature, brightness >>,
                WhiteTemperaturePacket(Frac(temperature, 1), brightness))

\* setWhiteKelvin with the factor 100 forgotten
dist_setWhiteKelvin_Fraction(kelvin, brightness) ==
    LET k == Clamp(2700, 6500, kelvin)
        temperature == Frac(k - 2700, 6500 - 2700)
    IN  writePacket("setWhiteKelvin", << kelvin, brightness >>,
                    WhiteTemperaturePacket(temperature, brightness))

dist_setWhiteKelvin(kelvin, brightness) ==
    LET k == Clamp(2700, 6500, kelvin)
        temperature == Frac((k - 2700) * 100, 6500 - 2700)
    IN  writePacket("setWhiteKelvin", << kelvin, brightness >>,
                    WhiteTemperaturePacket(temperature, brightness))

dist_setWarmWhite(level) == writePacket("setWarmWhite", << level >>, WarmWhitePacket(level))

dist_setCoolWhite(level) == writePacket("setCoolWhite", << level >>, CoolWhitePacket(level))

dist_setNeutralWhite(level) ==
    writePacket("setNeutralWhite", << level >>, NeutralWhitePacket(level))

dist_setBrightness(value) ==
    LET v == Clamp(0, 100, MathRound(Frac(value, 1)))
    IN  writePacket("setBrightness", << value >>,
                    Checksummed(Uint8Array(<< 0, 6, 128, 0, 0, 13, 14, 11,
                                              59, 52, v, 0, 0, 0, 0, 0,
                                              0, 0, 0, 0, 0 >>)))

dist_setSwitch(value) ==
    LET isOn == IF value # 0 THEN 35 ELSE 36
    IN  writePacket("setSwitch", << value >>,
                    Checksummed(Uint8Array(<< 0, IF value # 0 THEN 4 ELSE 91, 128, 0, 0, 13, 14, 11,
                                              59, isOn, 0, 0, 0, 0, 0, 0,
                                              0, 50, 0, 0, 0 >>)))

dist_setMode(mode) ==
    LET m == Clamp(1, 113, MathRound(Frac(mode, 1)))
    IN  writePacket("setMode", << mode >>,
                    Checksummed(Uint8Array(<< 0, 7, 128, 0, 0, 13, 14, 11,
                                              59, 44, m, 0, 0, 0, 0, 0,
                                              0, 0, 0, 0, 0 >>)))

dist_setSpeed(value) ==
    LET v == Clamp(0, 100, MathRound(Frac(value, 1)))
    IN  writePacket("setSpeed", << value >>,
                    Checksummed(Uint8Array(<< 0, 8, 128, 0, 0, 13, 14, 11,
                                              59, 43, v, 0, 0, 0, 0, 0,
                                              0, 0, 0, 0, 0 >>)))

\* queryDeviceSettings(): the packet is written as it stands
dist_queryDeviceSettings ==
    writePacket("queryDeviceSettings", << >>,
                Uint8Array(<< 0, 2, 128, 0, 0, 5, 6, 10,
                              99, 18, 33, 240, 134 >>))

NextDist ==
    \/ \E cb \in CallbackArgs : dist_connect(cb[1], cb[2], cb[3])
    \/ \E ok \in BOOLEAN : dist_connectAwaitDone(ok)
    \/ \E rgb \in DistColours : dist_setRGB(rgb[1], rgb[2], rgb[3])
    \/ \E t \in DistTemperatures, b \in DistLevels : dist_setWhiteTemperature(t, b)
    \/ \E k \in KelvinArgs, b \in DistLevels : dist_setWhiteKelvin(k, b)
    \/ \E b \in DistLevels : dist_setWarmWhite(b)
    \/ \E b \in DistLevels : dist_setCoolWhite(b)
    \/ \E b \in DistLevels : dist_setNeutralWhite(b)
    \/ \E v \in DistLevels : dist_setBrightness(v)
    \/ \E v \in DistSwitches : dist_setSwitch(v)
    \/ \E m \in DistModes : dist_setMode(m)
    \/ \E v \in DistLevels : dist_setSpeed(v)
    \/ dist_queryDeviceSettings
    \/ \E ok \in BOOLEAN : writeValueDone(ok)

\* the dist Device alone; the Device of src/ stays as constructed
SpecDist == Init /\ [][NextDist]_vars

\* C28: in the dist Device every packet handed to writeValue, that of
\* queryDeviceSettings included, ends with the sum of its bytes 9 to
\* length-2 modulo 256
C28_ChecksumLastByte ==
    (distRun.packet # << >>) =>
        distRun.packet[Len(distRun.packet)]
            = SumBytes(distRun.packet, 10, Len(distRun.packet) - 1) % 256

\* a command of the dist Device is called
DistCommandCalled == distRun'.nCalls = distRun.nCalls + 1

\* the pending writeValue of the dist Device is rejected
DistWriteFails == distRun.callPc = "writeValue" /\ distRun'.outcome = "rejected"

\* C29: in the dist Device a command called while no characteristic is bound
\* performs no writeValue, calls the registered error callback exactly once,
\* with the error 'Device not connected', and rejects; a rejected writeValue
\* calls the registered error callback exactly once, the command rejects and
\* no further writeValue is performed
C29_NotConnectedRejects ==
    [][ /\ (DistCommandCalled /\ dist.characteristic = "null") =>
              /\ distRun'.nWriteValue = distRun.nWriteValue
              /\ distRun'.callPc = "idle"
              /\ dist.onErrorCallback => distRun'.nOnError = distRun.nOnError + 1
              /\ distRun'.error = "Device not connected"
              /\ distRun'.outcome = "rejected"
        /\ DistWriteFails =>
              /\ distRun'.nWriteValue = distRun.nWriteValue
              /\ distRun'.callPc = "idle"
              /\ dist.onErrorCallback => distRun'.nOnError = distRun.nOnError + 1
      ]_vars

\* a command called after a connect() that failed, with an error callback
\* registered: the callback ran once for connect() and once for the command
C29_Witness ==
    /\ distRun.nConnects = 1
    /\ distRun.connectPc = "idle"
    /\ dist.characteristic = "null"
    /\ dist.onErrorCallback
    /\ distRun.nCalls = 1
    /\ distRun.nWriteValue = 0
    /\ distRun.nOnError = 2
    /\ distRun.error = "Device not connected"
    /\ distRun.outcome = "rejected"

====
